---- MODULE Spec2Model ----
(***************************************************************************)
(* sdget: DNS TXT records as a key/value table.                            *)
(*                                                                         *)
(* A string is a sequence of one-character strings, so that splitting on   *)
(* '=', comparing keys and rendering JSON are computed, not assumed.       *)
(* A Go slice is a record [isNil, elems]: a nil slice and an empty non-nil *)
(* slice both have length 0 but encode differently as JSON.                *)
(***************************************************************************)
EXTENDS Integers, Sequences, FiniteSets, TLC

VARIABLES
    opts,           \* options{outputFormat, valueType}
    key,            \* the requested key
    defaultValues,  \* *defaultValues in main / the defaultValues argument
    txtRecords,     \* what the provider returned
    values,         \* the value set (lookUpValues' result, output's argument)
    err,            \* the error value last returned to the caller (NoErr = nil)
    pc,             \* position of the caller
    exitCode,       \* process exit status (-1 while running)
    sink,           \* every byte the sink has received
    writes,         \* one entry per Write call on the sink: TRUE iff it succeeded
    outPc,          \* position inside output
    outIdx,         \* loop index of output's range loop
    calls,          \* the functions main has invoked so far, in order
    lastRcode,      \* the Rcode of the DNS response of this run ("" if none)
    prev            \* [code, kind] of the previous run of the process, or NoRun

vars == <<opts, key, defaultValues, txtRecords, values, err, pc, exitCode,
          sink, writes, outPc, outIdx, calls, lastRcode, prev>>

----------------------------------------------------------------------------
\* Bounds of the model.
MaxRecords == 2
MaxDefaults == 2
MaxValues == 2

\* Strings the inputs are drawn from.
RecordPool ==
    { <<>>, <<"k">>, <<"k", "=">>, <<"k", "=", "v">>,
      <<"k", "=", "v", "=", "w">>, <<"k", "=", "=">>, <<"K", "=", "v">>,
      <<"k", " ", "=", "v">>, <<"=", "v">>, <<"k", "=", "\"">> }
MainRecordPool ==
    { <<"k">>, <<"k", "=">>, <<"k", "=", "v">>, <<"K", "=", "<">> }
KeyPool == { <<"k">>, <<"K">>, <<"k", " ">>, <<>> }
MainKeyPool == { <<"k">>, <<"K">> }
DefaultPool == { <<"d">>, <<>> }
ValuePool == { <<"v">>, <<>>, <<"\"", "<">>, <<"\\">> }

SeqsUpTo(S, n) == UNION { [1..m -> S] : m \in 0..n }

\* Go slices of strings.
NilSlice == [isNil |-> TRUE, elems |-> <<>>]
MkSlice(s) == [isNil |-> FALSE, elems |-> s]
len(v) == Len(v.elems)
append(v, x) == MkSlice(Append(v.elems, x))
SlicesUpTo(S, n) == {NilSlice} \cup { MkSlice(s) : s \in SeqsUpTo(S, n) }

\* Error values.
NoErr == [kind |-> "nil"]
IsErr(e) == e.kind # "nil"

----------------------------------------------------------------------------
\* strings.SplitN(record, "=", 2)
FirstEq(record) ==
    IF \E i \in 1..Len(record) : record[i] = "="
    THEN CHOOSE i \in 1..Len(record) :
            /\ record[i] = "="
            /\ \A j \in 1..(i - 1) : record[j] # "="
    ELSE 0

\* strings.Split(record, "=") in place of SplitN: the second piece ends at
\* the next '='
SplitUnlimited(record) ==
    IF FirstEq(record) = 0
    THEN << record >>
    ELSE LET rest == SubSeq(record, FirstEq(record) + 1, Len(record))
         IN << SubSeq(record, 1, FirstEq(record) - 1),
               IF FirstEq(rest) = 0 THEN rest
               ELSE SubSeq(rest, 1, FirstEq(rest) - 1) >>

SplitN2(record) ==
    IF FirstEq(record) = 0
    THEN << record >>
    ELSE << SubSeq(record, 1, FirstEq(record) - 1),
            SubSeq(record, FirstEq(record) + 1, Len(record)) >>

\* the body of lookUpValues' range loop, for one record
collectOne(acc, record, k) ==
    LET pieces == SplitN2(record)
    IN IF Len(pieces) > 1 /\ pieces[1] = k
       THEN append(acc, pieces[2])
       ELSE acc

RECURSIVE collectFrom(_, _, _, _)
collectFrom(acc, records, i, k) ==
    IF i > Len(records)
    THEN acc
    ELSE collectFrom(collectOne(acc, records[i], k), records, i + 1, k)

\* the values matched by the loop, before defaults
collectValues(records, k) == collectFrom(NilSlice, records.elems, 1, k)

\* the defaults added to the matches instead of replacing an empty set
applyDefaultsAppending(matched, defaults) ==
    IF len(matched) = 0 THEN defaults
    ELSE MkSlice(matched.elems \o defaults.elems)

\* if len(values) == 0 { values = defaultValues }
applyDefaults(matched, defaults) ==
    IF len(matched) = 0 THEN defaults ELSE matched

\* the upper check off by one
checkCardinalityLax(options, vals, k) ==
    IF options.valueType = "single" /\ len(vals) = 0
    THEN [kind |-> "NoValue", key |-> k]
    ELSE IF options.valueType = "single" /\ len(vals) > 2
    THEN [kind |-> "TooManyValues", n |-> len(vals), key |-> k]
    ELSE NoErr

\* the single-mode cardinality check of lookUpValues
checkCardinality(options, vals, k) ==
    IF options.valueType = "single" /\ len(vals) = 0
    THEN [kind |-> "NoValue", key |-> k]
    ELSE IF options.valueType = "single" /\ len(vals) > 1
    THEN [kind |-> "TooManyValues", n |-> len(vals), key |-> k]
    ELSE NoErr

\* lookUpValues: returns [values, err]; values is nil on error
lookUpValues(options, records, k, defaults) ==
    LET vals == applyDefaults(collectValues(records, k), defaults)
        e == checkCardinality(options, vals, k)
    IN IF IsErr(e)
       THEN [values |-> NilSlice, err |-> e]
       ELSE [values |-> vals, err |-> NoErr]

----------------------------------------------------------------------------
\* The sink (io.Writer).  One Write call with payload p either succeeds, and
\* the sink has received all of p, or fails having received n < Len(p) bytes.
sinkAfter(s, p, n) == s \o SubSeq(p, 1, n)
writeOk(p, n) == n = Len(p)

\* fmt.Fprintln(sink, record): the record, unquoted, and a newline
lineOf(record) == record \o << "\n" >>

\* encoding/json string encoding with SetEscapeHTML(false): '"' and '\' are
\* escaped, '<', '>' and '&' pass through
escapeChar(c) ==
    IF c = "\"" THEN << "\\", "\"" >>
    ELSE IF c = "\\" THEN << "\\", "\\" >>
    ELSE << c >>

RECURSIVE escapeFrom(_, _)
escapeFrom(s, i) ==
    IF i > Len(s) THEN << >> ELSE escapeChar(s[i]) \o escapeFrom(s, i + 1)

encodeString(s) == << "\"" >> \o escapeFrom(s, 1) \o << "\"" >>

RECURSIVE encodeElems(_, _)
encodeElems(elems, i) ==
    IF i > Len(elems) THEN << >>
    ELSE (IF i > 1 THEN << "," >> ELSE << >>)
         \o encodeString(elems[i]) \o encodeElems(elems, i + 1)

\* a nil []string encodes as null, a non-nil one as an array
encodeSlice(v) ==
    IF v.isNil THEN << "n", "u", "l", "l" >>
    ELSE << "[" >> \o encodeElems(v.elems, 1) \o << "]" >>

\* encoder.Encode(x): the encoding of x and the record terminator
jsonPayload(options, vals) ==
    IF options.valueType = "single"
    THEN encodeString(vals.elems[1]) \o << "\n" >>
    ELSE encodeSlice(vals) \o << "\n" >>

\* a pre-check that only rejects too many values
precheckFailsTooMany(options, vals) ==
    options.valueType = "single" /\ len(vals) > 1

\* output's pre-check
precheckFails(options, vals) ==
    options.valueType = "single" /\ len(vals) # 1

\* output, up to and including the json case: the pre-check, the switch on
\* outputFormat, and for json the single Encode call (one Write on the sink)
OutputBegin ==
    /\ outPc = "call"
    /\ IF precheckFails(opts, values)
       THEN /\ err' = [kind |-> "Cardinality", n |-> len(values)]
            /\ outPc' = "returned"
            /\ UNCHANGED <<sink, writes, outIdx>>
       ELSE IF opts.outputFormat = "json"
       THEN IF opts.valueType = "single" /\ len(values) = 0
            THEN \* values[0] on an empty slice: index out of range
                 /\ outPc' = "panic"
                 /\ UNCHANGED <<err, sink, writes, outIdx>>
            ELSE \E n \in 0..Len(jsonPayload(opts, values)) :
                 LET p == jsonPayload(opts, values)
                 IN /\ sink' = sinkAfter(sink, p, n)
                    /\ writes' = Append(writes, writeOk(p, n))
                    /\ err' = IF writeOk(p, n) THEN NoErr
                              ELSE [kind |-> "WrapJSON"]
                    /\ outPc' = "returned"
                    /\ UNCHANGED outIdx
       ELSE IF opts.outputFormat = "plain"
       THEN /\ outPc' = "plain"
            /\ outIdx' = 1
            /\ UNCHANGED <<err, sink, writes>>
       ELSE \* no case of the switch matches
            /\ err' = NoErr
            /\ outPc' = "returned"
            /\ UNCHANGED <<sink, writes, outIdx>>
    /\ UNCHANGED <<opts, key, defaultValues, txtRecords, values, pc, exitCode,
                   calls, lastRcode, prev>>

\* the plain loop with Fprintln's error dropped
OutputPrintlnIgnoringError ==
    /\ outPc = "plain"
    /\ outIdx <= len(values)
    /\ \E n \in 0..Len(lineOf(values.elems[outIdx])) :
         LET p == lineOf(values.elems[outIdx])
         IN /\ sink' = sinkAfter(sink, p, n)
            /\ writes' = Append(writes, writeOk(p, n))
            /\ outIdx' = outIdx + 1
            /\ UNCHANGED <<err, outPc>>
    /\ UNCHANGED <<opts, key, defaultValues, txtRecords, values, pc, exitCode,
                   calls, lastRcode, prev>>

\* one iteration of the plain loop: one Fprintln, return on its error
OutputPrintln ==
    /\ outPc = "plain"
    /\ outIdx <= len(values)
    /\ \E n \in 0..Len(lineOf(values.elems[outIdx])) :
         LET p == lineOf(values.elems[outIdx])
         IN /\ sink' = sinkAfter(sink, p, n)
            /\ writes' = Append(writes, writeOk(p, n))
            /\ IF writeOk(p, n)
               THEN /\ outIdx' = outIdx + 1
                    /\ UNCHANGED <<err, outPc>>
               ELSE /\ err' = [kind |-> "Write"]
                    /\ outPc' = "returned"
                    /\ UNCHANGED outIdx
    /\ UNCHANGED <<opts, key, defaultValues, txtRecords, values, pc, exitCode,
                   calls, lastRcode, prev>>

\* the plain loop is over: return nil
OutputReturn ==
    /\ outPc = "plain"
    /\ outIdx > len(values)
    /\ err' = NoErr
    /\ outPc' = "returned"
    /\ UNCHANGED <<opts, key, defaultValues, txtRecords, values, pc, exitCode,
                   sink, writes, outIdx, calls, lastRcode, prev>>

----------------------------------------------------------------------------
\* The record provider.

\* What main's source argument can be, as getTxtProvider reads it.
SourcePool ==
    { [hasColon |-> FALSE, uriOk |-> TRUE, scheme |-> "", query |-> FALSE, fragment |-> FALSE],
      [hasColon |-> TRUE, uriOk |-> FALSE, scheme |-> "", query |-> FALSE, fragment |-> FALSE],
      [hasColon |-> TRUE, uriOk |-> TRUE, scheme |-> "dns", query |-> FALSE, fragment |-> FALSE],
      [hasColon |-> TRUE, uriOk |-> TRUE, scheme |-> "dns", query |-> TRUE, fragment |-> FALSE],
      [hasColon |-> TRUE, uriOk |-> TRUE, scheme |-> "dns", query |-> FALSE, fragment |-> TRUE],
      [hasColon |-> TRUE, uriOk |-> TRUE, scheme |-> "http", query |-> TRUE, fragment |-> FALSE] }

\* getTxtProvider: the error it returns; mkOk is whether makeDnsProvider succeeds
getTxtProvider(source, mkOk) ==
    IF source.hasColon /\ ~source.uriOk
    THEN [kind |-> "ProviderSetup", why |-> "uri"]
    ELSE IF source.hasColon /\ source.scheme = "dns" /\ source.query
    THEN [kind |-> "ProviderSetup", why |-> "query"]
    ELSE IF source.hasColon /\ source.scheme = "dns" /\ source.fragment
    THEN [kind |-> "ProviderSetup", why |-> "fragment"]
    ELSE IF ~mkOk
    THEN [kind |-> "ProviderSetup", why |-> "makeDnsProvider"]
    ELSE NoErr

\* Resource records of a response's answer section.
TxtRR(fragments) == [type |-> "TXT", txt |-> fragments]
RRPool ==
    { TxtRR(<< r >>) : r \in MainRecordPool }
    \cup { TxtRR(<< <<"k", "=">>, <<"w">> >>), [type |-> "CNAME", txt |-> << >>] }

\* What the DNS exchange can yield.
ResponsePool ==
    { [stage |-> "config", rcode |-> "", answer |-> << >>],
      [stage |-> "exchange", rcode |-> "", answer |-> << >>],
      [stage |-> "response", rcode |-> "NXDOMAIN", answer |-> << >>],
      [stage |-> "response", rcode |-> "SERVFAIL", answer |-> << >>] }
    \cup { [stage |-> "response", rcode |-> "NOERROR", answer |-> a] :
             a \in SeqsUpTo(RRPool, MaxRecords) }

\* strings.Join(txt.Txt, "")
RECURSIVE joinFrom(_, _)
joinFrom(fragments, i) ==
    IF i > Len(fragments) THEN << >>
    ELSE fragments[i] \o joinFrom(fragments, i + 1)

RECURSIVE resultsFrom(_, _, _)
resultsFrom(acc, answer, i) ==
    IF i > Len(answer) THEN acc
    ELSE resultsFrom(IF answer[i].type = "TXT"
                     THEN append(acc, joinFrom(answer[i].txt, 1))
                     ELSE acc,
                     answer, i + 1)

\* NXDOMAIN ignored
rcodeErrorIgnoringNameError(rcode) ==
    IF rcode \in {"NOERROR", "NXDOMAIN"} THEN NoErr
    ELSE [kind |-> "Provider", why |-> "remote"]

\* the switch on response.Rcode
rcodeError(rcode) ==
    IF rcode = "NOERROR" THEN NoErr
    ELSE IF rcode = "NXDOMAIN" THEN [kind |-> "Provider", why |-> "no TXT records"]
    ELSE [kind |-> "Provider", why |-> "remote"]

\* getTxtRecords: returns [records, err]
getTxtRecords(response) ==
    IF response.stage = "config"
    THEN [records |-> NilSlice, err |-> [kind |-> "Provider", why |-> "config"]]
    ELSE IF response.stage = "exchange"
    THEN [records |-> NilSlice, err |-> [kind |-> "Provider", why |-> "exchange"]]
    ELSE IF IsErr(rcodeError(response.rcode))
    THEN [records |-> NilSlice, err |-> rcodeError(response.rcode)]
    ELSE [records |-> resultsFrom(NilSlice, response.answer, 1), err |-> NoErr]

----------------------------------------------------------------------------
\* main

\* os.Exit(code) after an error e
Exit(code, e) ==
    /\ pc' = "exit"
    /\ exitCode' = code
    /\ err' = e

\* if *defaultValues == nil { defaultValues = &[]string{} }
normaliseDefaults(d) == IF d.isNil THEN MkSlice(<< >>) ELSE d

\* a contract check that lets two defaults through
tooManyDefaultsLax(options, d) == options.valueType = "single" /\ len(d) > 2

\* the caller-side contract check
tooManyDefaults(options, d) == options.valueType = "single" /\ len(d) > 1

\* exit statuses of main
ExitContract == 1
ExitSetup == 2
ExitProvider == 3
ExitLookupShared == ExitProvider
ExitLookup == 4
ExitOutput == 5

MainCheckDefaults ==
    /\ pc = "start"
    /\ defaultValues' = normaliseDefaults(defaultValues)
    /\ IF tooManyDefaults(opts, normaliseDefaults(defaultValues))
       THEN Exit(ExitContract, [kind |-> "CallerContract",
                                n |-> len(defaultValues)])
       ELSE /\ pc' = "provider"
            /\ UNCHANGED <<err, exitCode>>
    /\ UNCHANGED <<opts, key, txtRecords, values, sink, writes, outPc, outIdx,
                   calls, lastRcode, prev>>

MainGetTxtProvider ==
    /\ pc = "provider"
    /\ calls' = Append(calls, "getTxtProvider")
    /\ \E source \in SourcePool, mkOk \in BOOLEAN :
         IF IsErr(getTxtProvider(source, mkOk))
         THEN Exit(ExitSetup, getTxtProvider(source, mkOk))
         ELSE /\ pc' = "query"
              /\ UNCHANGED <<err, exitCode>>
    /\ UNCHANGED <<opts, key, defaultValues, txtRecords, values, sink, writes,
                   outPc, outIdx, lastRcode, prev>>

MainGetTxtRecords ==
    /\ pc = "query"
    /\ calls' = Append(calls, "getTxtRecords")
    /\ \E response \in ResponsePool :
         LET r == getTxtRecords(response)
         IN /\ txtRecords' = r.records
            /\ lastRcode' = response.rcode
            /\ IF IsErr(r.err)
               THEN Exit(ExitProvider, r.err)
               ELSE /\ pc' = "lookup"
                    /\ UNCHANGED <<err, exitCode>>
    /\ UNCHANGED <<opts, key, defaultValues, values, sink, writes, outPc,
                   outIdx, prev>>

MainLookUpValues ==
    /\ pc = "lookup"
    /\ calls' = Append(calls, "lookUpValues")
    /\ LET r == lookUpValues(opts, txtRecords, key, defaultValues)
       IN /\ values' = r.values
          /\ IF IsErr(r.err)
             THEN Exit(ExitLookup, r.err)
             ELSE /\ pc' = "render"
                  /\ UNCHANGED <<err, exitCode>>
    /\ UNCHANGED <<opts, key, defaultValues, txtRecords, sink, writes, outPc,
                   outIdx, lastRcode, prev>>

\* main calls output(options, os.Stdout, values)
MainCallOutput ==
    /\ pc = "render"
    /\ calls' = Append(calls, "output")
    /\ pc' = "output"
    /\ outPc' = "call"
    /\ UNCHANGED <<opts, key, defaultValues, txtRecords, values, err, exitCode,
                   sink, writes, outIdx, lastRcode, prev>>

\* output has returned to main: exit 5 on its error, else fall off the end
MainAfterOutput ==
    /\ pc = "output"
    /\ outPc = "returned"
    /\ pc' = "exit"
    /\ exitCode' = IF IsErr(err) THEN ExitOutput ELSE 0
    /\ UNCHANGED <<opts, key, defaultValues, txtRecords, values, err, sink,
                   writes, outPc, outIdx, calls, lastRcode, prev>>

----------------------------------------------------------------------------
\* One invocation of the process, as kingpin.Parse leaves it: the flags are
\* enum-checked, and the default arguments are nil when none was given.
FormatEnum == {"json", "plain", "zero"}
TypeEnum == {"single", "list"}
OptionSet == [outputFormat : FormatEnum, valueType : TypeEnum]

NoRun == [code |-> -1, kind |-> "norun"]

ParsedDefaults ==
    {NilSlice} \cup { MkSlice(s) : s \in SeqsUpTo(DefaultPool, MaxDefaults) \ {<< >>} }

ProcessStart ==
    /\ opts \in OptionSet
    /\ key \in MainKeyPool
    /\ defaultValues \in ParsedDefaults
    /\ txtRecords = NilSlice
    /\ values = NilSlice
    /\ err = NoErr
    /\ pc = "start"
    /\ exitCode = -1
    /\ sink = << >>
    /\ writes = << >>
    /\ outPc = "idle"
    /\ outIdx = 0
    /\ calls = << >>
    /\ lastRcode = ""

Init ==
    /\ ProcessStart
    /\ prev = NoRun

\* the process is invoked a second time; the first run's outcome is remembered
Restart ==
    /\ pc = "exit"
    /\ prev = NoRun
    /\ prev' = [code |-> exitCode, kind |-> err.kind]
    /\ opts' \in OptionSet
    /\ key' \in MainKeyPool
    /\ defaultValues' \in ParsedDefaults
    /\ txtRecords' = NilSlice
    /\ values' = NilSlice
    /\ err' = NoErr
    /\ pc' = "start"
    /\ exitCode' = -1
    /\ sink' = << >>
    /\ writes' = << >>
    /\ outPc' = "idle"
    /\ outIdx' = 0
    /\ calls' = << >>
    /\ lastRcode' = ""

Next ==
    \/ MainCheckDefaults
    \/ MainGetTxtProvider
    \/ MainGetTxtRecords
    \/ MainLookUpValues
    \/ MainCallOutput
    \/ OutputBegin
    \/ OutputPrintln
    \/ OutputReturn
    \/ MainAfterOutput
    \/ Restart

Spec == Init /\ [][Next]_vars

----------------------------------------------------------------------------
\* lookUpValues called on its own, on every input of the pools.
InitLookup ==
    /\ opts \in [outputFormat : {"plain"}, valueType : TypeEnum]
    /\ key \in KeyPool
    /\ defaultValues \in SlicesUpTo(DefaultPool, MaxDefaults)
    /\ txtRecords \in SlicesUpTo(RecordPool, MaxRecords)
    /\ values = NilSlice
    /\ err = NoErr
    /\ pc = "lookup_call"
    /\ exitCode = -1
    /\ sink = << >>
    /\ writes = << >>
    /\ outPc = "idle"
    /\ outIdx = 0
    /\ calls = << >>
    /\ lastRcode = ""
    /\ prev = NoRun

LookupCall ==
    /\ pc = "lookup_call"
    /\ LET r == lookUpValues(opts, txtRecords, key, defaultValues)
       IN /\ values' = r.values
          /\ err' = r.err
    /\ pc' = "lookup_returned"
    /\ UNCHANGED <<opts, key, defaultValues, txtRecords, exitCode, sink,
                   writes, outPc, outIdx, calls, lastRcode, prev>>

NextLookup == LookupCall

SpecLookup == InitLookup /\ [][NextLookup]_vars

----------------------------------------------------------------------------
\* output called on its own, with any value set, consistent or not.
InitOutput ==
    /\ opts \in OptionSet
    /\ key = << >>
    /\ defaultValues = NilSlice
    /\ txtRecords = NilSlice
    /\ values \in SlicesUpTo(ValuePool, MaxValues)
    /\ err = NoErr
    /\ pc = "output_direct"
    /\ exitCode = -1
    /\ sink = << >>
    /\ writes = << >>
    /\ outPc = "call"
    /\ outIdx = 0
    /\ calls = << >>
    /\ lastRcode = ""
    /\ prev = NoRun

NextOutput ==
    \/ OutputBegin
    \/ OutputPrintln
    \/ OutputReturn

SpecOutput == InitOutput /\ [][NextOutput]_vars

----------------------------------------------------------------------------
\* The record convention "<key>=<value>", stated on positions: what a record
\* contributes for a key, independently of how lookUpValues computes it.
EqPositions(r) == { i \in 1..Len(r) : r[i] = "=" }
MinOf(S) == CHOOSE x \in S : \A y \in S : x <= y
KeyOf(r) == SubSeq(r, 1, MinOf(EqPositions(r)) - 1)
ValueOf(r) == SubSeq(r, MinOf(EqPositions(r)) + 1, Len(r))
RecordMatches(r, k) == EqPositions(r) # {} /\ KeyOf(r) = k
MatchesKey(r) == RecordMatches(r, key)
MatchedRecords == SelectSeq(txtRecords.elems, MatchesKey)
MatchedValues == [ i \in 1..Len(MatchedRecords) |-> ValueOf(MatchedRecords[i]) ]
NoMatch == Len(MatchedRecords) = 0
EffectiveValues == IF NoMatch THEN defaultValues.elems ELSE MatchedValues
LookupReturned == pc = "lookup_returned"

\* C1: default substitution is all-or-nothing.  With no matching record the
\* effective value set is the default sequence, same elements in the same
\* order (so a too-many error counts the defaults, and a no-value error
\* means there were none); with at least one match the effective value set
\* has as many entries as there are matching records, each a matched value,
\* whatever the defaults are.
C1_DefaultsAllOrNothing ==
    LookupReturned =>
        IF NoMatch
        THEN /\ ~IsErr(err) => values.elems = defaultValues.elems
             /\ err.kind = "TooManyValues" => err.n = Len(defaultValues.elems)
             /\ err.kind = "NoValue" => Len(defaultValues.elems) = 0
        ELSE /\ ~IsErr(err) =>
                  /\ Len(values.elems) = Len(MatchedRecords)
                  /\ \A i \in 1..Len(values.elems) :
                        \E j \in 1..Len(MatchedRecords) :
                            values.elems[i] = ValueOf(MatchedRecords[j])
             /\ err.kind = "TooManyValues" => err.n = Len(MatchedRecords)
             /\ err.kind # "NoValue"

\* C1 witness: list mode, no record matches, two defaults come back in order
\* although the records hold other keys.
C1_Witness ==
    /\ LookupReturned
    /\ NoMatch
    /\ len(txtRecords) = 2
    /\ opts.valueType = "list"
    /\ defaultValues.elems = << <<"d">>, << >> >>
    /\ values.elems = << <<"d">>, << >> >>

\* C2: lookUpValues fails iff the value type is single and the effective
\* value set does not have exactly one entry; zero entries give the no-value
\* error naming the key, N > 1 entries the too-many-values error with N and
\* the key; every success returns the effective value set.
C2_FailsIffSingleNotOne ==
    LookupReturned =>
        /\ IsErr(err) <=> (opts.valueType = "single" /\ Len(EffectiveValues) # 1)
        /\ (opts.valueType = "single" /\ Len(EffectiveValues) = 0)
              => err = [kind |-> "NoValue", key |-> key]
        /\ (opts.valueType = "single" /\ Len(EffectiveValues) > 1)
              => err = [kind |-> "TooManyValues", n |-> Len(EffectiveValues),
                        key |-> key]
        /\ ~IsErr(err) => values.elems = EffectiveValues

\* C2 witness: single mode, nothing matched, two defaults: too many values,
\* reported as 2.
C2_Witness ==
    /\ LookupReturned
    /\ opts.valueType = "single"
    /\ NoMatch
    /\ len(defaultValues) = 2
    /\ err.kind = "TooManyValues"
    /\ err.n = 2

\* C3: the collected values are, in provider order and with duplicates, the
\* remainders after the first '=' of the records whose text before the first
\* '=' equals the key; records without '=' contribute nothing.
C3_CollectedValues ==
    LookupReturned =>
        /\ (~IsErr(err) /\ ~NoMatch) => values.elems = MatchedValues
        /\ (opts.valueType = "list" /\ NoMatch) => values = defaultValues
        /\ (opts.valueType = "single" /\ ~NoMatch /\ IsErr(err))
              => err.n = Len(MatchedValues)

\* C3 witness: a value holding a further '=' and an empty value, in order.
C3_Witness ==
    /\ LookupReturned
    /\ key = <<"k">>
    /\ txtRecords.elems = << <<"k", "=", "v", "=", "w">>, <<"k", "=">> >>
    /\ values.elems = << <<"v", "=", "w">>, << >> >>

----------------------------------------------------------------------------
\* Runs of main.
Called(f) == \E i \in 1..Len(calls) : calls[i] = f
Exited == pc = "exit"
LastWriteFailed == writes # << >> /\ ~writes[Len(writes)]

ErrorKind(k) ==
    CASE k = "CallerContract" -> "CallerContractError"
      [] k \in {"ProviderSetup", "Provider"} -> "ProviderError"
      [] k = "NoValue" -> "NoValue"
      [] k = "TooManyValues" -> "TooManyValues"
      [] k \in {"Cardinality", "Write", "WrapJSON"} -> "OutputError"
      [] OTHER -> "none"
TwoFailedRuns ==
    /\ Exited
    /\ prev # NoRun
    /\ ErrorKind(prev.kind) # "none"
    /\ ErrorKind(err.kind) # "none"
    /\ ErrorKind(prev.kind) # ErrorKind(err.kind)
LookupKinds == {"NoValue", "TooManyValues"}

\* C5 as stated: two runs that end in different error kinds never end with
\* the same exit code, and a run that ends with exit code 0 had no error.
C5_DistinctKindsDistinctCodes ==
    /\ TwoFailedRuns => prev.code # exitCode
    /\ (Exited /\ exitCode = 0) => ~IsErr(err)

\* C5 amended: main gives one exit status per failing step (1 contract check,
\* 2 and 3 provider, 4 lookUpValues, 5 output).  Two runs that end in
\* different error kinds end with different exit codes unless the kinds are
\* NoValue and TooManyValues, which both end with status 4; a run ends with
\* exit code 0 exactly when it had no error.
C5_CodesByStep ==
    /\ (TwoFailedRuns /\ {err.kind, prev.kind} # LookupKinds)
          => prev.code # exitCode
    /\ (TwoFailedRuns /\ {err.kind, prev.kind} = LookupKinds)
          => (prev.code = ExitLookup /\ exitCode = ExitLookup)
    /\ Exited => (exitCode = 0 <=> ~IsErr(err))

\* C5 witness: a no-value run and a too-many-values run, both status 4.
C5_Witness ==
    /\ Exited
    /\ prev.kind = "NoValue"
    /\ err.kind = "TooManyValues"
    /\ prev.code = 4
    /\ exitCode = 4

\* C8: with value type single and more than one default, the run ends with
\* exit status 1 before the provider is created or queried and before
\* lookUpValues or output runs; nothing is written.
C8_ContractCheckFirst ==
    (opts.valueType = "single" /\ len(defaultValues) > 1) =>
        /\ pc \in {"start", "exit"}
        /\ calls = << >>
        /\ sink = << >>
        /\ writes = << >>
        /\ lastRcode = ""
        /\ Exited => (exitCode = ExitContract /\ err.kind = "CallerContract")

\* C8 witness: two defaults in single mode, ended with status 1.
C8_Witness ==
    /\ Exited
    /\ opts.valueType = "single"
    /\ len(defaultValues) = 2
    /\ exitCode = 1
    /\ calls = << >>

----------------------------------------------------------------------------
\* Calls of output.
RECURSIVE PlainRendering(_)
PlainRendering(elems) ==
    IF elems = << >> THEN << >>
    ELSE Head(elems) \o << "\n" >> \o PlainRendering(Tail(elems))

\* what a call without write failures sends to the sink
Rendering ==
    IF opts.outputFormat = "plain" THEN PlainRendering(values.elems)
    ELSE IF opts.outputFormat = "json" THEN jsonPayload(opts, values)
    ELSE << >>
IsPrefix(a, b) == Len(a) <= Len(b) /\ SubSeq(b, 1, Len(a)) = a
OutputReturned == outPc = "returned"
NoWriteAfterFailure ==
    \A i \in 1..Len(writes) : ~writes[i] => i = Len(writes)

\* C6 as stated: output either writes the complete rendering and returns
\* success, or returns an error with the sink never having received only
\* part of the rendering; after a failed write it writes no more.
C6_NoPartialOutput ==
    /\ NoWriteAfterFailure
    /\ OutputReturned =>
          IF IsErr(err) THEN sink = << >> ELSE sink = Rendering

\* C6 amended: output either writes the complete rendering and returns
\* success, or returns an error; on a write error the failed write is the
\* last one made, and the sink keeps what was written before it (the earlier
\* lines of a plain list, and any bytes the failed write delivered): a proper
\* prefix of the rendering, which can be non-empty.
C6_StopsAtFailedWrite ==
    /\ NoWriteAfterFailure
    /\ OutputReturned =>
          IF ~IsErr(err)
          THEN /\ sink = Rendering
               /\ \A i \in 1..Len(writes) : writes[i]
          ELSE IF err.kind = "Cardinality"
          THEN sink = << >> /\ writes = << >>
          ELSE /\ LastWriteFailed
               /\ IsPrefix(sink, Rendering)
               /\ Len(sink) < Len(Rendering)

\* C6 witness: a plain list whose first line was written and whose second
\* write failed.
C6_Witness ==
    /\ OutputReturned
    /\ opts.outputFormat = "plain"
    /\ len(values) = 2
    /\ writes = << TRUE, FALSE >>
    /\ err.kind = "Write"
    /\ sink = values.elems[1] \o << "\n" >>

\* C7: with value type single and a value set whose length is not 1, output
\* returns a cardinality error at once for every format: nothing is written,
\* no rendering starts, and values[0] is never read from an empty set.
C7_PrecheckFirst ==
    /\ outPc # "panic"
    /\ (opts.valueType = "single" /\ Len(values.elems) # 1 /\ outPc # "call") =>
          /\ OutputReturned
          /\ err = [kind |-> "Cardinality", n |-> Len(values.elems)]
          /\ sink = << >>
          /\ writes = << >>

\* C7 witness: json, single, an empty value set: the cardinality error.
C7_Witness ==
    /\ OutputReturned
    /\ opts = [outputFormat |-> "json", valueType |-> "single"]
    /\ len(values) = 0
    /\ err.kind = "Cardinality"

\* C9: for every accepted format (json, plain, zero) a successful call has
\* written every value, in order and once: plain one line per value, json
\* single one string literal, json list one array of all values; a non-empty
\* value set never yields a successful call that wrote nothing.  (A nil slice
\* is encoded as null; the array wording is read on non-nil value sets.)
C9_SuccessWritesEveryValue ==
    (OutputReturned /\ ~IsErr(err)) =>
        IF opts.outputFormat = "plain"
        THEN sink = PlainRendering(values.elems)
        ELSE IF opts.outputFormat = "json" /\ opts.valueType = "single"
        THEN sink = encodeString(values.elems[1]) \o << "\n" >>
        ELSE IF opts.outputFormat = "json"
        THEN ~values.isNil =>
                sink = << "[" >> \o encodeElems(values.elems, 1) \o << "]", "\n" >>
        ELSE len(values) > 0 => sink # << >>

\* C10: in a run of main output gets the value set of a successful
\* lookUpValues, so in single mode it gets one value and its pre-check never
\* fails; exit status 5 comes only from a failed write; every run that ends
\* with status 0 in single mode has written exactly one value.
C10_PipelineInvariant ==
    /\ (pc = "output" /\ opts.valueType = "single") => len(values) = 1
    /\ err.kind # "Cardinality"
    /\ outPc # "panic"
    /\ (Exited /\ exitCode = ExitOutput) => LastWriteFailed
    /\ (Exited /\ exitCode = 0 /\ opts.valueType = "single") =>
          /\ len(values) = 1
          /\ writes = << TRUE >>
          /\ sink \in { lineOf(values.elems[1]),
                        encodeString(values.elems[1]) \o << "\n" >> }

====
